---- MODULE Spec2Model ----
(***************************************************************************)
(* The AI execution gateway of the Meti backend (server/index.js):         *)
(* POST /api/ai/execute behind authenticateToken, the AI_AGENTS registry,  *)
(* cleanInput, the per-tier usage limits and the shaping of the reply.     *)
(*                                                                         *)
(* Strings are sequences of UTF-16 code units (integers).  JavaScript      *)
(* values are records tagged by the field t: "undefined", "string",        *)
(* "number", "object" (ordered keys and a field map), "array".             *)
(***************************************************************************)
EXTENDS Integers, Sequences, FiniteSets, TLC

VARIABLES
  tokensUsed,   \* the store: usage.tokensUsed of each user record
  tokens0,      \* history: the store's counters before any request
  req,          \* per request slot: the handler's position and its record
  other,        \* the rest of the server: projects, clients, outbound calls
  san,          \* a value put through cleanInput, and what came out
  tab,          \* a registry table and a backend result put through the shaping
  chat          \* a chat of createSalesChat in the browser

vars == <<tokensUsed, tokens0, req, other, san, tab, chat>>

(***************************************************************************)
(* Bounds of the model.                                                    *)
(***************************************************************************)
\* Request slots of the concurrent specification.
NumReqs == 2
\* Length of the longest caller-supplied string: one past the sanitizer's cut.
LongLen == 5001

(***************************************************************************)
(* Strings.                                                                *)
(***************************************************************************)
Min(a, b) == IF a <= b THEN a ELSE b

\* A string of n copies of the code unit c.
Rep(c, n) == [i \in 1..n |-> c]

\* str.slice(0, n) for n >= 0.
Slice0(s, n) == SubSeq(s, 1, Min(n, Len(s)))

\* The character class [\u0000-\u001F\u007F-\u009F] of cleanInput's regex.
IsControl(c) == (0 <= c /\ c <= 31) \/ (127 <= c /\ c <= 159)

\* The length cleanInput cuts to.
MaxInputLen == 5000

\* Variant: the regex without its g flag, which removes the first match only.
StripControlFirst(s) ==
  LET hits == {i \in DOMAIN s : IsControl(s[i])}
  IN  IF hits = {} THEN s
      ELSE LET i == CHOOSE h \in hits : \A g \in hits : h <= g
           IN  SubSeq(s, 1, i - 1) \o SubSeq(s, i + 1, Len(s))

\* str.replace(/[\u0000-\u001F\u007F-\u009F]/g, "")
StripControl(s) == SelectSeq(s, LAMBDA c : ~IsControl(c))

(***************************************************************************)
(* JavaScript values.                                                      *)
(***************************************************************************)
Undefined == [t |-> "undefined"]
Str(s) == [t |-> "string", s |-> s]
Num(n) == [t |-> "number", n |-> n]
Obj(keys, f) == [t |-> "object", keys |-> keys, f |-> f]
Arr(a) == [t |-> "array", a |-> a]
\* The value a throwing expression yields in this model.
Throws == [t |-> "throw"]

IsString(v) == v.t = "string"

\* Variant: a property of undefined reads as undefined, as with d?.name.
GetLenient(v, name) ==
  IF v.t = "object" /\ name \in DOMAIN v.f THEN v.f[name] ELSE Undefined

\* v.name: a TypeError on undefined, the own property of an object, and
\* undefined on a primitive or a missing property.
Get(v, name) ==
  IF v.t \in {"undefined", "throw"} THEN Throws
  ELSE IF v.t = "object" /\ name \in DOMAIN v.f THEN v.f[name]
  ELSE Undefined

\* Variant: the cut is made before the control characters are removed.
cleanInputCutFirst(v) ==
  IF ~IsString(v) THEN Str(<<>>)
  ELSE Str(StripControl(Slice0(v.s, MaxInputLen)))

\* cleanInput(str): '' for a non-string; otherwise the control characters
\* removed, then the first 5000 code units.
cleanInput(v) ==
  IF ~IsString(v) THEN Str(<<>>)
  ELSE Str(Slice0(StripControl(v.s), MaxInputLen))

(***************************************************************************)
(* JSON.stringify, as the chat_reply prompt applies it to d.history.       *)
(***************************************************************************)
\* The concatenation of the strings ss[lo..hi].
RECURSIVE Concat(_, _, _)
Concat(ss, lo, hi) ==
  IF lo > hi THEN <<>>
  ELSE IF lo = hi THEN ss[lo]
  ELSE LET mid == (lo + hi) \div 2
       IN  Concat(ss, lo, mid) \o Concat(ss, mid + 1, hi)

HexDigit(n) == IF n < 10 THEN 48 + n ELSE 87 + n

\* JSON's escape of one code unit: the short escapes, \u00XX for the other
\* code units below U+0020, and every other code unit as it is.
QuoteChar(c) ==
  IF c = 34 THEN <<92, 34>>
  ELSE IF c = 92 THEN <<92, 92>>
  ELSE IF c = 8 THEN <<92, 98>>
  ELSE IF c = 9 THEN <<92, 116>>
  ELSE IF c = 10 THEN <<92, 110>>
  ELSE IF c = 12 THEN <<92, 102>>
  ELSE IF c = 13 THEN <<92, 114>>
  ELSE IF c < 32 THEN <<92, 117, 48, 48, HexDigit(c \div 16), HexDigit(c % 16)>>
  ELSE <<c>>

\* The JSON text of a string: quoted, each code unit escaped.
Quote(s) ==
  <<34>> \o Concat([i \in 1..Len(s) |-> QuoteChar(s[i])], 1, Len(s)) \o <<34>>

\* The code units of the property names that occur in payloads.
KeyChars(k) ==
  CASE k = "role" -> <<114, 111, 108, 101>>
    [] k = "text" -> <<116, 101, 120, 116>>
    [] k = "jobTitle" -> <<106, 111, 98, 84, 105, 116, 108, 101>>
    [] OTHER -> <<107>>

\* JSON.stringify(v) as a JavaScript value: undefined for undefined,
\* otherwise the JSON text.  In an array undefined is written null; in an
\* object a property whose value is undefined is left out.
RECURSIVE Digits(_)
Digits(n) == IF n < 10 THEN <<48 + n>> ELSE Digits(n \div 10) \o <<48 + (n % 10)>>

RECURSIVE JSONstringify(_)
JSONstringify(v) ==
  CASE v.t = "undefined" -> Undefined
    [] v.t = "number" -> Str(Digits(v.n))
    [] v.t = "string" -> Str(Quote(v.s))
    [] v.t = "array" ->
         LET item(i) == IF v.a[i].t = "undefined" THEN <<110, 117, 108, 108>>
                        ELSE JSONstringify(v.a[i]).s
             parts == [i \in 1..Len(v.a) |->
                         (IF i > 1 THEN <<44>> ELSE <<>>) \o item(i)]
         IN  Str(<<91>> \o Concat(parts, 1, Len(parts)) \o <<93>>)
    [] v.t = "object" ->
         LET present == SelectSeq(v.keys, LAMBDA k : v.f[k].t # "undefined")
             parts == [i \in 1..Len(present) |->
                         (IF i > 1 THEN <<44>> ELSE <<>>)
                         \o <<34>> \o KeyChars(present[i]) \o <<34, 58>>
                         \o JSONstringify(v.f[present[i]]).s]
         IN  Str(<<123>> \o Concat(parts, 1, Len(parts)) \o <<125>>)

(***************************************************************************)
(* The agent registry AI_AGENTS.                                           *)
(***************************************************************************)
NoSchema == [type |-> "none"]
ArraySchema(items) == [type |-> "ARRAY", items |-> items]
ObjectSchema == [type |-> "OBJECT", items |-> "none"]

AgentConfig(model, tools, schema) ==
  [model |-> model, tools |-> tools, schema |-> schema]

\* The table: each agent's model, its tools (<<>> when the entry has none)
\* and the top of its response schema (NoSchema when the entry has none).
AI_AGENTS ==
  ("niche" :> AgentConfig("gemini-2.5-flash", <<>>, ArraySchema("OBJECT")))
  @@ ("persona" :> AgentConfig("gemini-3-pro-preview", <<>>, ObjectSchema))
  @@ ("magnets" :> AgentConfig("gemini-2.5-flash", <<>>, ArraySchema("OBJECT")))
  @@ ("maps_scout" :> AgentConfig("gemini-2.5-flash", <<"googleMaps">>, NoSchema))
  @@ ("social_search" :> AgentConfig("gemini-2.5-flash", <<>>, ArraySchema("OBJECT")))
  @@ ("landing_page" :> AgentConfig("gemini-3-pro-preview", <<>>, ObjectSchema))
  @@ ("ad_creatives" :> AgentConfig("gemini-2.5-flash", <<>>, ArraySchema("OBJECT")))
  @@ ("seo_audit" :> AgentConfig("gemini-2.5-flash", <<"googleSearch">>, ArraySchema("OBJECT")))
  @@ ("seo_keywords" :> AgentConfig("gemini-2.5-flash", <<>>, ArraySchema("OBJECT")))
  @@ ("chat_reply" :> AgentConfig("gemini-2.5-flash", <<>>, NoSchema))
  @@ ("follow_up" :> AgentConfig("gemini-2.5-flash", <<>>, ArraySchema("OBJECT")))
  @@ ("qualification" :> AgentConfig("gemini-2.5-flash", <<>>, ArraySchema("OBJECT")))
  @@ ("cold_dms" :> AgentConfig("gemini-2.5-flash", <<>>, ArraySchema("STRING")))
  @@ ("email_campaign" :> AgentConfig("gemini-2.5-flash", <<>>, ObjectSchema))
  @@ ("email_subjects" :> AgentConfig("gemini-2.5-flash", <<>>, ArraySchema("STRING")))
  @@ ("objection_handler" :> AgentConfig("gemini-2.5-flash", <<>>, ArraySchema("STRING")))
  @@ ("content_score" :> AgentConfig("gemini-2.5-flash", <<>>, ObjectSchema))

AgentNames == DOMAIN AI_AGENTS

\* Property names every object literal inherits from Object.prototype.
ObjectPrototypeKeys ==
  {"constructor", "toString", "valueOf", "hasOwnProperty", "isPrototypeOf",
   "propertyIsEnumerable", "toLocaleString", "__proto__"}

\* AI_AGENTS[agent]: the entry of a registered name, the inherited member
\* for a name of Object.prototype, undefined for any other name.
AgentLookup(agent) ==
  IF agent \in AgentNames THEN [t |-> "config", name |-> agent]
  ELSE IF agent \in ObjectPrototypeKeys THEN [t |-> "inherited", name |-> agent]
  ELSE Undefined

\* JavaScript truthiness of the values a lookup yields.
Truthy(v) == v.t # "undefined"

(***************************************************************************)
(* The prompt builders.  A prompt is the sequence of the template's        *)
(* pieces: "lit" for the template's own text, "val" for an interpolated    *)
(* string computed from the payload.                                       *)
(***************************************************************************)
Lit(text) == [t |-> "lit", text |-> text]

\* ${e} for an expression e that yields a string, or that throws.
Val(v) == IF v.t = "throw" THEN Throws ELSE [t |-> "val", s |-> v.s]

\* cleanInput(e) where evaluating e may throw.
Clean(v) == IF v.t = "throw" THEN Throws ELSE cleanInput(v)

\* A template literal: it throws when one of its expressions throws.
Template(parts) ==
  IF \E i \in DOMAIN parts : parts[i].t = "throw" THEN Throws
  ELSE [t |-> "prompt", segs |-> parts]

\* ${cleanInput(d.<name>)}
Field(d, name) == Val(Clean(Get(d, name)))

\* ${cleanInput(d.persona.jobTitle)}
JobTitle(d) == Val(Clean(Get(Get(d, "persona"), "jobTitle")))

\* ${cleanInput(d.refinement) || 'None'}
Refinement(d) ==
  LET c == Clean(Get(d, "refinement"))
  IN  IF c.t = "throw" THEN Throws
      ELSE IF c.s = <<>> THEN Lit("None") ELSE Val(c)

\* ${cleanInput(d.content).slice(0,2000)}
ContentSliceLen == 2000

Content(d) ==
  LET c == Clean(Get(d, "content"))
  IN  IF c.t = "throw" THEN Throws ELSE Val(Str(Slice0(c.s, ContentSliceLen)))

\* ${JSON.stringify(d.history)}
History(d) ==
  LET h == Get(d, "history")
  IN  IF h.t = "throw" THEN Throws
      ELSE LET j == JSONstringify(h)
           IN  IF j.t = "undefined" THEN Lit("undefined") ELSE Val(j)

\* agentConfig.prompt(payload) of the registered agent.
Prompt(agent, d) ==
  CASE agent = "niche" ->
         Template(<<Lit("Analyze product: \""), Field(d, "productName"),
                    Lit("\". Desc: "), Field(d, "description"),
                    Lit(". Identify 3 profitable niches. Return valid JSON.")>>)
    [] agent = "persona" ->
         Template(<<Lit("Build ICP for \""), Field(d, "productName"),
                    Lit("\" in niche \""), Field(d, "niche"),
                    Lit("\". Refinement: "), Refinement(d), Lit(". Return JSON.")>>)
    [] agent = "magnets" ->
         Template(<<Lit("3 Lead magnet ideas for "), Field(d, "persona"),
                    Lit(" related to "), Field(d, "productName"),
                    Lit(". Return JSON.")>>)
    [] agent = "maps_scout" ->
         Template(<<Lit("Find 5 verified business leads for \""), Field(d, "niche"),
                    Lit("\" in \""), Field(d, "location"), Lit("\".")>>)
    [] agent = "social_search" ->
         Template(<<Lit("Generate 3 Boolean Search Strings for "), JobTitle(d),
                    Lit(" in "), Field(d, "niche"), Lit(". Return JSON.")>>)
    [] agent = "landing_page" ->
         Template(<<Lit("Write landing page copy for "), Field(d, "productName"),
                    Lit(". Target: "), JobTitle(d), Lit(". Return JSON.")>>)
    [] agent = "ad_creatives" ->
         Template(<<Lit("Generate 3 ad creatives for "), Field(d, "productName"),
                    Lit(". Return JSON.")>>)
    [] agent = "seo_audit" ->
         Template(<<Lit("Audit SEO for "), Field(d, "url"),
                    Lit(". Identify technical issues. Return JSON.")>>)
    [] agent = "seo_keywords" ->
         Template(<<Lit("Keyword strategy for \""), Field(d, "seed"),
                    Lit("\" niche \""), Field(d, "niche"), Lit("\". Return JSON.")>>)
    [] agent = "chat_reply" ->
         Template(<<Lit("Roleplay as "), JobTitle(d), Lit(". Product: "),
                    Field(d, "productName"), Lit(". History: "), History(d),
                    Lit(". Reply short.")>>)
    [] agent = "follow_up" ->
         Template(<<Lit("3 email sequence for "), Field(d, "productName"),
                    Lit(". Return JSON.")>>)
    [] agent = "qualification" ->
         Template(<<Lit("5 BANT questions for "), Field(d, "productName"),
                    Lit(". Return JSON.")>>)
    [] agent = "cold_dms" ->
         Template(<<Lit("3 cold DMs for "), JobTitle(d),
                    Lit(". Return JSON array of strings.")>>)
    [] agent = "email_campaign" ->
         Template(<<Lit("Write email body: \""), Field(d, "topic"),
                    Lit("\" Goal: \""), Field(d, "goal"), Lit("\". Return JSON.")>>)
    [] agent = "email_subjects" ->
         Template(<<Lit("5 subject lines for \""), Field(d, "topic"),
                    Lit("\". Return JSON array strings.")>>)
    [] agent = "objection_handler" ->
         Template(<<Lit("3 rebuttals for: \""), Field(d, "objection"),
                    Lit("\". Return JSON array strings.")>>)
    [] agent = "content_score" ->
         Template(<<Lit("Analyze SEO content for \""), Field(d, "keyword"),
                    Lit("\": \""), Content(d), Lit("\". Return JSON.")>>)

\* agentConfig.prompt(payload) for the value the lookup gave: the entry's
\* builder, or a TypeError when the value has no callable prompt.
CallPrompt(config, d) ==
  IF config.t = "config" THEN Prompt(config.name, d) ELSE Throws

(***************************************************************************)
(* The backend's reply and JSON.parse.  The text of a reply is a sequence  *)
(* of lexical tokens: a code fence, the word json after a fence, white     *)
(* space, a complete JSON value, or prose.                                 *)
(***************************************************************************)
\* The code fence, three backquotes.
Fence == "<fence>"
JsonWord == "json"
Ws == "\n"
Prose == "Here you go:"
ObjTok == "{\"score\": 72}"
ArrTok == "[{\"name\": \"x\"}]"
StrTok == "\"ok\""

\* The value of a token that is a complete JSON text.
JsonValue(tok) ==
  CASE tok = ObjTok -> Obj(<<"score">>, [score |-> Num(72)])
    [] tok = ArrTok -> Arr(<<Obj(<<"name">>, [name |-> Str(<<120>>)])>>)
    [] tok = StrTok -> Str(<<111, 107>>)
    [] OTHER -> Throws

\* str.trim(): the text without its leading and trailing white space.
Trim(text) ==
  LET idx == {i \in DOMAIN text : text[i] # Ws}
  IN  IF idx = {} THEN <<>>
      ELSE SubSeq(text, CHOOSE i \in idx : \A j \in idx : i <= j,
                        CHOOSE i \in idx : \A j \in idx : i >= j)

\* JSON.parse(text): white space around one JSON value is allowed; anything
\* else is a SyntaxError.
JSONparse(text) ==
  LET core == Trim(text)
  IN  IF Len(core) = 1 THEN JsonValue(core[1]) ELSE Throws

\* Variant: only the fence itself is removed, the word json stays.
RemoveFencesKeepWord(text) == SelectSeq(text, LAMBDA tok : tok # Fence)

\* text.replace(/<fence>json|<fence>/g, ''): every fence goes, with the word json
\* when it follows the fence directly.
RemoveFences(text) ==
  LET keep(i) == /\ text[i] # Fence
                 /\ ~(text[i] = JsonWord /\ i > 1 /\ text[i - 1] = Fence)
      idx == {i \in DOMAIN text : keep(i)}
      nth[k \in 0..Len(text)] ==
        IF k = 0 THEN 0
        ELSE CHOOSE i \in idx : i > nth[k - 1] /\ \A j \in idx : j > nth[k - 1] => i <= j
  IN  [k \in 1..Cardinality(idx) |-> text[nth[k]]]

\* The handler's parse of a schema agent's text: JSON.parse, and when that
\* throws, JSON.parse of the text with its fences removed and trimmed.
ParseOutput(text) ==
  LET strict == JSONparse(text)
  IN  IF strict.t # "throw" THEN strict
      ELSE JSONparse(Trim(RemoveFences(text)))

\* result.usageMetadata?.totalTokenCount || 500
FallbackUsage == 500

Usage(result) ==
  IF result.totalTokenCount.t = "number" /\ result.totalTokenCount.n # 0
  THEN result.totalTokenCount.n
  ELSE FallbackUsage

\* Variant: the chunks are sent back last first.
MapChunksReversed(result) ==
  IF result.groundingChunks.t = "undefined" THEN Arr(<<>>)
  ELSE Arr([i \in DOMAIN result.groundingChunks.a |->
              result.groundingChunks.a[Len(result.groundingChunks.a) + 1 - i]])

\* grounding?.groundingChunks || []
MapChunks(result) ==
  IF result.groundingChunks.t = "undefined" THEN Arr(<<>>)
  ELSE result.groundingChunks

\* Variant: only the maps agent is shaped as text plus chunks.
IsGroundedAgentMapsOnly(agent) == agent = "maps_scout"

\* The agents whose reply the handler shapes as text plus chunks.
IsGroundedAgent(agent) == agent = "maps_scout" \/ agent = "seo_audit"

\* The data of the reply to a request for an agent registered in table, or
\* Throws when the parse of a schema agent's text fails twice: the handler
\* tests the agent's name for the grounded reply and the table's entry for
\* the schema.
NormalizeIn(table, agent, result) ==
  IF IsGroundedAgent(agent)
  THEN Obj(<<"text", "mapChunks">>,
           [text |-> Str(result.text), mapChunks |-> MapChunks(result)])
  ELSE IF table[agent].schema # NoSchema THEN ParseOutput(result.text)
  ELSE Str(result.text)

\* The shaping with the table of the source.
Normalize(agent, result) == NormalizeIn(AI_AGENTS, agent, result)

(***************************************************************************)
(* The principal store and the usage limits.                               *)
(***************************************************************************)
\* The users with a record; "" is a record whose subscription is not set.
Subscription ==
  [u_hobby |-> "hobby", u_pro |-> "pro", u_agency |-> "agency",
   u_unset |-> "", u_other |-> "enterprise"]

UserIds == DOMAIN Subscription

\* An id a valid token carries although no record has it.
MissingId == "u_gone"

HobbyLimit == 100000
ProLimit == 1000000
AgencyLimit == 5000000

limits == [hobby |-> HobbyLimit, pro |-> ProLimit, agency |-> AgencyLimit]

\* Variant: the comparison is strict.
QuotaExceededStrict(used, subscription) ==
  LET key == IF subscription = "" THEN "hobby" ELSE subscription
  IN  key \in DOMAIN limits /\ used > limits[key]

\* Variant: every user is held to the hobby limit.
QuotaExceededHobbyOnly(used, subscription) == used >= limits["hobby"]

\* Variant: only the paid tiers are checked.
QuotaExceededPaidOnly(used, subscription) ==
  subscription \in {"pro", "agency"} /\ used >= limits[subscription]

\* user.usage.tokensUsed >= limits[user.subscription || 'hobby']; the
\* comparison with the undefined limit of an unlisted subscription is false.
QuotaExceeded(used, subscription) ==
  LET key == IF subscription = "" THEN "hobby" ELSE subscription
  IN  key \in DOMAIN limits /\ used >= limits[key]

(***************************************************************************)
(* The inputs: payloads, tokens, agent names, backend replies.             *)
(***************************************************************************)
\* "Meti"
PlainStr == <<77, 101, 116, 105>>
\* Letters around a line feed, DEL, U+0085, e-acute, NUL, a quote, U+001F.
DirtyStr == <<97, 10, 127, 133, 233, 0, 34, 31, 98>>
\* One code unit longer than cleanInput keeps.
LongStr == Rep(97, LongLen)

PayloadKeys ==
  <<"productName", "description", "niche", "refinement", "persona",
    "location", "url", "seed", "topic", "goal", "objection", "keyword",
    "content", "history">>

\* A payload object whose string fields are all s.
PayloadOf(s, persona, history) ==
  Obj(PayloadKeys,
      [productName |-> Str(s), description |-> Str(s), niche |-> Str(s),
       refinement |-> Str(s), persona |-> persona, location |-> Str(s),
       url |-> Str(s), seed |-> Str(s), topic |-> Str(s), goal |-> Str(s),
       objection |-> Str(s), keyword |-> Str(s), content |-> Str(s),
       history |-> history])

PersonaProfile(jobTitle) == Obj(<<"jobTitle">>, [jobTitle |-> Str(jobTitle)])

\* A ChatMessage {role, text}.
ChatMessage(role, text) ==
  Obj(<<"role", "text">>,
      [role |-> Str(IF role = "user" THEN <<117, 115, 101, 114>>
                    ELSE <<109, 111, 100, 101, 108>>),
       text |-> Str(text)])

\* The payloads a request may carry: none; flat fields with the persona as
\* a string and no history; the persona as an object and a chat history,
\* with unclean strings; the same with over-long strings; no refinement;
\* flat fields with neither persona nor history.
Payloads ==
  <<Undefined,
    PayloadOf(PlainStr, Str(PlainStr), Undefined),
    PayloadOf(DirtyStr, PersonaProfile(DirtyStr),
              Arr(<<ChatMessage("user", DirtyStr), ChatMessage("model", PlainStr)>>)),
    PayloadOf(LongStr, PersonaProfile(LongStr),
              Arr(<<ChatMessage("user", LongStr)>>)),
    PayloadOf(<<>>, PersonaProfile(PlainStr), Arr(<<>>)),
    PayloadOf(PlainStr, Undefined, Undefined)>>

PayloadIds == DOMAIN Payloads

\* The bearer token of a request: absent, not verifiable, or signed for id.
NoToken == [kind |-> "none", id |-> ""]
BadToken == [kind |-> "bad", id |-> ""]
ValidToken(id) == [kind |-> "valid", id |-> id]

Tokens == {NoToken, BadToken} \cup {ValidToken(id) : id \in UserIds \cup {MissingId}}

\* Agent names a request may carry: the registered ones, a name nothing
\* defines, and names Object.prototype defines.
AgentInputs == AgentNames \cup {"does_not_exist", "constructor", "__proto__"}

BackendResult(text, chunks, count) ==
  [text |-> text, groundingChunks |-> chunks, totalTokenCount |-> count]

Chunk(title) == Obj(<<"title">>, [title |-> Str(<<title>>)])

TwoChunks == Arr(<<Chunk("Acme Cafe"), Chunk("Acme Bakery")>>)

\* Texts of a reply: bare JSON, fenced JSON, prose before JSON, a bare array,
\* a bare JSON string.
Texts ==
  {<<ObjTok>>, <<Fence, JsonWord, Ws, ObjTok, Ws, Fence>>,
   <<Prose, Ws, ArrTok>>, <<ArrTok>>, <<StrTok>>}

Results ==
  {BackendResult(text, chunks, count) :
     text \in Texts, chunks \in {Undefined, TwoChunks},
     count \in {Undefined, Num(0), Num(300), Num(700)}}

\* The inputs of the concurrent specification.
SampleTokens == {ValidToken("u_hobby"), ValidToken("u_pro")}
SampleAgents == {"niche", "chat_reply"}
SamplePayloadIds == {3}
SampleResults ==
  {BackendResult(text, Undefined, count) :
     text \in {<<ObjTok>>, <<Prose, Ws, ArrTok>>}, count \in {Undefined, Num(300)}}

(***************************************************************************)
(* The state: the stored usage counter of each user and, per request       *)
(* slot, the handler's position and what it has done so far.               *)
(***************************************************************************)
Reqs == 1..NumReqs

NoResult == BackendResult(<<>>, Undefined, Undefined)

IdleReq ==
  [pc |-> "idle", userId |-> "", agent |-> "", pid |-> 0, seen |-> -1,
   result |-> NoResult, sent |-> <<>>, charges |-> <<>>, res |-> <<>>,
   trace |-> <<>>, log |-> <<>>, closedAt |-> "", doc |-> -1, among |-> 0]

\* The other collections and services before any request: no project, no
\* client, nothing sent out.
NoOther == [projects |-> {}, clients |-> {}, outbox |-> <<>>, calls |-> 0]

\* No table has been put through the shaping.
IdleTab == [pc |-> "idle"]

\* No chat has been created.
IdleChat == [pc |-> "idle"]

\* No value has been given to cleanInput.
IdleSan == [pc |-> "idle", v |-> Undefined, once |-> Undefined, twice |-> Undefined]

\* The limit a user's counter is set against at the start.
BaseOf(u) ==
  CASE Subscription[u] = "pro" -> ProLimit
    [] Subscription[u] = "agency" -> AgencyLimit
    [] Subscription[u] = "enterprise" -> AgencyLimit
    [] OTHER -> HobbyLimit

\* Starting counters: a fresh account, just under the limit, at it, over it.
Levels == {"fresh", "near", "at", "over"}

InitialTokens(level) ==
  [u \in UserIds |->
     CASE level = "fresh" -> 0
       [] level = "near" -> BaseOf(u) - 300
       [] level = "at" -> BaseOf(u)
       [] level = "over" -> BaseOf(u) + 200]

Init ==
  /\ tokensUsed \in {InitialTokens(level) : level \in Levels}
  /\ tokens0 = tokensUsed
  /\ req = [r \in Reqs |-> IdleReq]
  /\ other = NoOther
  /\ san = IdleSan
  /\ tab = IdleTab
  /\ chat = IdleChat

\* res.status(status).json(body) and the end of the handler.
Reply(q, status, body, last) ==
  [q EXCEPT !.pc = "done",
            !.res = Append(@, [status |-> status, body |-> body]),
            !.trace = @ \o last]

\* The handler's catch block: logger.error, then the 500 reply.
Catch(q, message) ==
  Reply([q EXCEPT !.log = Append(@, [msg |-> "AI Error", error |-> message,
                                     userId |-> q.userId])],
        500, [error |-> "AI Processing Failed"], <<"errored">>)

\* The requests of user u the server is handling now.
InFlightOf(u) ==
  {k \in Reqs : req[k].userId = u /\ req[k].pc \notin {"idle", "done"}}

\* authenticateToken on an arriving request: 401 without a token, 403 for
\* a token that does not verify, else req.user is set and the handler runs.
AuthenticateToken(r, token, agent, pid) ==
  /\ req[r].pc = "idle"
  /\ \A k \in Reqs : k < r => req[k].pc # "idle"
  /\ LET q == [req[r] EXCEPT !.agent = agent, !.pid = pid,
                             !.trace = <<"authenticate">>]
     IN  req' = [req EXCEPT ![r] =
           IF token.kind = "none"
           THEN Reply(q, 401, [error |-> "Unauthorized"], <<"errored">>)
           ELSE IF token.kind = "bad"
           THEN Reply(q, 403, [error |-> "Forbidden"], <<"errored">>)
           ELSE [q EXCEPT !.pc = "handler", !.userId = token.id,
                          !.among = 1 + Cardinality(InFlightOf(token.id))]]
  /\ UNCHANGED <<tokensUsed, tokens0, other, san, tab, chat>>

\* Variant: the 404 branch replies and does not return.
ExecuteStartNoReturn(r) ==
  /\ req[r].pc = "handler"
  /\ LET q == [req[r] EXCEPT !.trace = Append(@, "resolve")]
     IN  req' = [req EXCEPT ![r] =
           IF ~Truthy(AgentLookup(q.agent))
           THEN [Reply(q, 404, [error |-> "Invalid agent"], <<"errored">>)
                   EXCEPT !.pc = "findById"]
           ELSE [q EXCEPT !.pc = "findById"]]
  /\ UNCHANGED <<tokensUsed, tokens0, other, san, tab, chat>>

\* The handler up to its first await: the lookup of the agent, the 404 for
\* a falsy lookup, else the start of User.findById.
ExecuteStart(r) ==
  /\ req[r].pc = "handler"
  /\ LET q == [req[r] EXCEPT !.trace = Append(@, "resolve")]
     IN  req' = [req EXCEPT ![r] =
           IF ~Truthy(AgentLookup(q.agent))
           THEN Reply(q, 404, [error |-> "Invalid agent"], <<"errored">>)
           ELSE [q EXCEPT !.pc = "findById"]]
  /\ UNCHANGED <<tokensUsed, tokens0, other, san, tab, chat>>

\* The arguments of genAI.models.generateContent.
GenerateArgs(config, prompt) ==
  [model |-> AI_AGENTS[config.name].model,
   contents |-> prompt,
   responseMimeType |-> IF AI_AGENTS[config.name].schema # NoSchema
                        THEN "application/json" ELSE "text/plain",
   responseSchema |-> AI_AGENTS[config.name].schema,
   tools |-> AI_AGENTS[config.name].tools,
   maxOutputTokens |-> 8192]

\* The handler from the resolution of User.findById, with used the counter
\* of the record the store read, to its next await: a
\* missing user makes user.usage throw; a user at or over the limit gets
\* the 402; else the prompt is built (a throw goes to the catch block) and
\* generateContent is called.
AfterFindById(q0, used) ==
  LET config == AgentLookup(q0.agent)
  IN  IF q0.userId \notin UserIds
      THEN Catch(q0, "Cannot read properties of null")
      ELSE
        LET q == [q0 EXCEPT !.seen = used,
                            !.trace = Append(@, "quota")]
        IN  IF QuotaExceeded(q.seen, Subscription[q.userId])
            THEN Reply(q, 402, [error |-> "Quota exceeded. Upgrade required."],
                       <<"errored">>)
            ELSE
              LET prompt == CallPrompt(config, Payloads[q.pid])
                  qs == [q EXCEPT !.trace = Append(@, "sanitize")]
              IN  IF prompt.t = "throw"
                  THEN Catch(qs, "prompt threw")
                  ELSE [qs EXCEPT !.pc = "generateContent",
                                 !.sent = Append(@, GenerateArgs(config, prompt)),
                                 !.trace = Append(@, "invoke")]

\* Variant: the check reserves the fallback amount before it decides.
FindByIdResolvesReserving(r) ==
  /\ req[r].pc = "findByIdRead"
  /\ req' = [req EXCEPT ![r] = AfterFindById(req[r], req[r].doc)]
  /\ tokensUsed' = IF req[r].userId \in UserIds
                   THEN [tokensUsed EXCEPT ![req[r].userId] = @ + FallbackUsage]
                   ELSE tokensUsed
  /\ UNCHANGED <<tokens0, other, san, tab, chat>>

\* The store runs the query of User.findById: it reads the user's record
\* as stored now (no record for an id nobody has).
FindByIdReads(r) ==
  /\ req[r].pc = "findById"
  /\ req' = [req EXCEPT ![r] =
               [@ EXCEPT !.pc = "findByIdRead",
                         !.doc = IF req[r].userId \in UserIds
                                 THEN tokensUsed[req[r].userId] ELSE -1]]
  /\ UNCHANGED <<tokensUsed, tokens0, other, san, tab, chat>>

\* User.findById resolves in the handler with the record the store read.
FindByIdResolves(r) ==
  /\ req[r].pc = "findByIdRead"
  /\ req' = [req EXCEPT ![r] = AfterFindById(req[r], req[r].doc)]
  /\ UNCHANGED <<tokensUsed, tokens0, other, san, tab, chat>>

\* User.findById rejects: the store failed.
FindByIdRejects(r) ==
  /\ req[r].pc = "findById"
  /\ req' = [req EXCEPT ![r] = Catch(req[r], "findById failed")]
  /\ UNCHANGED <<tokensUsed, tokens0, other, san, tab, chat>>

\* generateContent resolves with result: the usage is computed and
\* User.findByIdAndUpdate is called with $inc.
GenerateContentResolves(r, result) ==
  /\ req[r].pc = "generateContent"
  /\ req' = [req EXCEPT ![r] = [@ EXCEPT !.pc = "findByIdAndUpdate",
                                         !.result = result]]
  /\ UNCHANGED <<tokensUsed, tokens0, other, san, tab, chat>>

\* Variant: the catch block charges the fallback amount.
GenerateContentRejectsCharging(r) ==
  /\ req[r].pc = "generateContent"
  /\ req' = [req EXCEPT ![r] =
               Catch([@ EXCEPT !.charges = Append(@, FallbackUsage)],
                     "generateContent failed")]
  /\ tokensUsed' = [tokensUsed EXCEPT ![req[r].userId] = @ + FallbackUsage]
  /\ UNCHANGED <<tokens0, other, san, tab, chat>>

\* Variant: a rejected call is made once more before the handler gives up.
GenerateContentRejectsRetrying(r) ==
  /\ req[r].pc = "generateContent"
  /\ req' = [req EXCEPT ![r] =
               IF Len(@.sent) < 2
               THEN [@ EXCEPT !.sent = Append(@, @[1])]
               ELSE Catch(@, "generateContent failed")]
  /\ UNCHANGED <<tokensUsed, tokens0, other, san, tab, chat>>

\* Variant: the catch block logs the failure and sends nothing.
GenerateContentRejectsSilent(r) ==
  /\ req[r].pc = "generateContent"
  /\ req' = [req EXCEPT ![r] =
               [@ EXCEPT !.pc = "done",
                         !.log = Append(@, [msg |-> "AI Error",
                                            error |-> "generateContent failed",
                                            userId |-> req[r].userId]),
                         !.trace = Append(@, "errored")]]
  /\ UNCHANGED <<tokensUsed, tokens0, other, san, tab, chat>>

\* generateContent rejects: a transport failure or an error status.
GenerateContentRejects(r) ==
  /\ req[r].pc = "generateContent"
  /\ req' = [req EXCEPT ![r] = Catch(req[r], "generateContent failed")]
  /\ UNCHANGED <<tokensUsed, tokens0, other, san, tab, chat>>

\* Variant: when the text parses in neither form it is sent back as it is.
FinishReturningText(q) ==
  LET data == Normalize(q.agent, q.result)
      qn == [q EXCEPT !.trace = Append(@, "normalize")]
  IN  Reply(qn, 200, [data |-> IF data.t = "throw" THEN Str(q.result.text) ELSE data],
            <<"reply">>)

\* The rest of the handler once the usage is stored: the grounded reply,
\* the parsed reply or the text; a parse that throws twice goes to catch.
Finish(q) ==
  LET data == Normalize(q.agent, q.result)
      qn == [q EXCEPT !.trace = Append(@, "normalize")]
  IN  IF data.t = "throw" THEN Catch(qn, "Unexpected token")
      ELSE Reply(qn, 200, [data |-> data], <<"reply">>)

\* Variant: the handler writes back the counter it read plus the usage.
FindByIdAndUpdateResolvesStale(r) ==
  /\ req[r].pc = "findByIdAndUpdate"
  /\ LET q == req[r]
         usage == Usage(q.result)
     IN  /\ tokensUsed' = [tokensUsed EXCEPT ![q.userId] = q.seen + usage]
         /\ UNCHANGED <<tokens0, other, san, tab, chat>>
         /\ req' = [req EXCEPT ![r] =
                      Finish([q EXCEPT !.charges = Append(@, usage),
                                       !.trace = Append(@, "charge")])]

\* Variant: the store applies the $inc twice.
FindByIdAndUpdateResolvesTwice(r) ==
  /\ req[r].pc = "findByIdAndUpdate"
  /\ LET q == req[r]
         usage == Usage(q.result)
     IN  /\ tokensUsed' = [tokensUsed EXCEPT ![q.userId] = @ + usage + usage]
         /\ UNCHANGED <<tokens0, other, san, tab, chat>>
         /\ req' = [req EXCEPT ![r] =
                      Finish([q EXCEPT !.charges = Append(@, usage),
                                       !.trace = Append(@, "charge")])]

\* findByIdAndUpdate resolves: the store has added the usage to the
\* counter in one step; the handler goes on to shape the reply.
FindByIdAndUpdateResolves(r) ==
  /\ req[r].pc = "findByIdAndUpdate"
  /\ LET q == req[r]
         usage == Usage(q.result)
     IN  /\ tokensUsed' = [tokensUsed EXCEPT ![q.userId] = @ + usage]
         /\ UNCHANGED <<tokens0, other, san, tab, chat>>
         /\ req' = [req EXCEPT ![r] =
                      Finish([q EXCEPT !.charges = Append(@, usage),
                                       !.trace = Append(@, "charge")])]

\* findByIdAndUpdate rejects: nothing was stored.
FindByIdAndUpdateRejects(r) ==
  /\ req[r].pc = "findByIdAndUpdate"
  /\ req' = [req EXCEPT ![r] = Catch(req[r], "findByIdAndUpdate failed")]
  /\ UNCHANGED <<tokensUsed, tokens0, other, san, tab, chat>>

\* Variant: a close handler charges the fallback amount for the abandoned
\* call, and the handler still runs on.
ClientDisconnectsCharging(r) ==
  /\ req[r].pc \in {"findById", "findByIdRead", "generateContent", "findByIdAndUpdate"}
  /\ req[r].closedAt = ""
  /\ req' = [req EXCEPT ![r] = [@ EXCEPT !.closedAt = req[r].pc,
                                         !.charges = Append(@, FallbackUsage)]]
  /\ tokensUsed' = IF req[r].userId \in UserIds
                   THEN [tokensUsed EXCEPT ![req[r].userId] = @ + FallbackUsage]
                   ELSE tokensUsed
  /\ UNCHANGED <<tokens0, other, san, tab, chat>>

\* The caller closes the connection while the handler waits on an await.
\* The handler registers no listener for it and passes no abort signal to
\* the store or the backend: it runs on, and what it writes to the response
\* goes to a closed socket.
ClientDisconnects(r) ==
  /\ req[r].pc \in {"findById", "findByIdRead", "generateContent", "findByIdAndUpdate"}
  /\ req[r].closedAt = ""
  /\ req' = [req EXCEPT ![r] = [@ EXCEPT !.closedAt = req[r].pc]]
  /\ UNCHANGED <<tokensUsed, tokens0, other, san, tab, chat>>

\* Concurrent requests, with a sample of the inputs.
Next ==
  \E r \in Reqs :
    \/ \E token \in SampleTokens, agent \in SampleAgents, pid \in SamplePayloadIds :
         AuthenticateToken(r, token, agent, pid)
    \/ ExecuteStart(r)
    \/ FindByIdReads(r)
    \/ FindByIdResolves(r)
    \/ FindByIdRejects(r)
    \/ \E result \in SampleResults : GenerateContentResolves(r, result)
    \/ GenerateContentRejects(r)
    \/ FindByIdAndUpdateResolves(r)
    \/ FindByIdAndUpdateRejects(r)

Spec == Init /\ [][Next]_vars

\* One request, with every input.
NextSingle ==
  \/ \E token \in Tokens, agent \in AgentInputs, pid \in PayloadIds :
       AuthenticateToken(1, token, agent, pid)
  \/ ExecuteStart(1)
  \/ FindByIdReads(1)
  \/ FindByIdResolves(1)
  \/ FindByIdRejects(1)
  \/ \E result \in Results : GenerateContentResolves(1, result)
  \/ GenerateContentRejects(1)
  \/ FindByIdAndUpdateResolves(1)
  \/ FindByIdAndUpdateRejects(1)

\* The inputs of the specification with callers that disconnect.
CancelAgents == {"niche", "chat_reply", "maps_scout", "constructor", "does_not_exist"}
CancelPayloadIds == {1, 3}

\* One request whose caller may disconnect while the handler waits.
NextCancel ==
  \/ \E token \in Tokens, agent \in CancelAgents, pid \in CancelPayloadIds :
       AuthenticateToken(1, token, agent, pid)
  \/ ExecuteStart(1)
  \/ FindByIdReads(1)
  \/ FindByIdResolves(1)
  \/ FindByIdRejects(1)
  \/ \E result \in Results : GenerateContentResolves(1, result)
  \/ GenerateContentRejects(1)
  \/ FindByIdAndUpdateResolves(1)
  \/ FindByIdAndUpdateRejects(1)
  \/ ClientDisconnects(1)

SpecCancel == Init /\ [][NextCancel]_vars

(***************************************************************************)
(* The other routes of the server.  Each is taken at its one store or      *)
(* service call, behind authenticateToken with a token that verifies for   *)
(* user u.  other.calls counts the requests these routes have handled and  *)
(* gives a new document its _id.                                           *)
(***************************************************************************)
\* Requests the other routes handle in one run.
MaxCalls == 2

ServerUsers == {t.id : t \in SampleTokens}
DocIds == 1..MaxCalls

\* Bodies of PUT /api/clients/:id: a new name, and a new name with a usage
\* field, which the Client schema does not have.
ClientBodies ==
  {[name |-> "Acme"], [name |-> "Acme", usage |-> [tokensUsed |-> 0]]}

Handled(o) == [o EXCEPT !.calls = @ + 1]

\* GET /api/projects: Project.find for the user.
GetProjects(u) ==
  /\ other.calls < MaxCalls
  /\ other' = Handled(other)
  /\ UNCHANGED <<tokensUsed, tokens0, req, san, tab, chat>>

\* POST /api/projects: Project.create with userId: req.user.id.
PostProject(u) ==
  /\ other.calls < MaxCalls
  /\ other' = Handled([other EXCEPT !.projects =
                         @ \cup {[id |-> other.calls + 1, userId |-> u, data |-> "new"]}])
  /\ UNCHANGED <<tokensUsed, tokens0, req, san, tab, chat>>

\* PUT /api/projects/:id: Project.findOneAndUpdate on the user's project
\* with that id, $set of data; 404 when there is none.
PutProject(u, id) ==
  /\ other.calls < MaxCalls
  /\ other' = Handled([other EXCEPT !.projects =
                         {IF p.id = id /\ p.userId = u
                          THEN [p EXCEPT !.data = "edited"] ELSE p : p \in @}])
  /\ UNCHANGED <<tokensUsed, tokens0, req, san, tab, chat>>

\* DELETE /api/projects/:id: Project.deleteOne on the user's project.
DeleteProject(u, id) ==
  /\ other.calls < MaxCalls
  /\ other' = Handled([other EXCEPT !.projects =
                         {p \in @ : ~(p.id = id /\ p.userId = u)}])
  /\ UNCHANGED <<tokensUsed, tokens0, req, san, tab, chat>>

\* GET /api/clients: Client.find for the user.
GetClients(u) ==
  /\ other.calls < MaxCalls
  /\ other' = Handled(other)
  /\ UNCHANGED <<tokensUsed, tokens0, req, san, tab, chat>>

\* POST /api/clients: Client.create with userId: req.user.id and the body.
PostClient(u) ==
  /\ other.calls < MaxCalls
  /\ other' = Handled([other EXCEPT !.clients =
                         @ \cup {[id |-> other.calls + 1, userId |-> u, name |-> "New"]}])
  /\ UNCHANGED <<tokensUsed, tokens0, req, san, tab, chat>>

\* Variant: a usage field in the body is written to the user's record.
PutClientWritingUsage(u, id, body) ==
  /\ other.calls < MaxCalls
  /\ other' = Handled([other EXCEPT !.clients =
                         {IF c.id = id /\ c.userId = u
                          THEN [c EXCEPT !.name = body.name] ELSE c : c \in @}])
  /\ tokensUsed' = IF "usage" \in DOMAIN body
                   THEN [tokensUsed EXCEPT ![u] = body.usage.tokensUsed]
                   ELSE tokensUsed
  /\ UNCHANGED <<tokens0, req, san, tab, chat>>

\* PUT /api/clients/:id: Client.findOneAndUpdate on the user's client with
\* the body as the update; the model is Client, so only fields of the Client
\* schema are written, and to a Client document.
PutClient(u, id, body) ==
  /\ other.calls < MaxCalls
  /\ other' = Handled([other EXCEPT !.clients =
                         {IF c.id = id /\ c.userId = u
                          THEN [c EXCEPT !.name = body.name] ELSE c : c \in @}])
  /\ UNCHANGED <<tokensUsed, tokens0, req, san, tab, chat>>

\* DELETE /api/clients/:id: Client.deleteOne on the user's client.
DeleteClient(u, id) ==
  /\ other.calls < MaxCalls
  /\ other' = Handled([other EXCEPT !.clients =
                         {c \in @ : ~(c.id = id /\ c.userId = u)}])
  /\ UNCHANGED <<tokensUsed, tokens0, req, san, tab, chat>>

\* POST /api/email/send, /api/social/post and /api/create-checkout-session:
\* one call to the outside service, which succeeds (ok) or throws.
CallService(u, service, ok) ==
  /\ other.calls < MaxCalls
  /\ other' = Handled([other EXCEPT !.outbox =
                         IF ok THEN Append(@, [service |-> service, userId |-> u])
                         ELSE @])
  /\ UNCHANGED <<tokensUsed, tokens0, req, san, tab, chat>>

EmailSend(u, ok) == CallService(u, "sendgrid", ok)
SocialPost(u, ok) == CallService(u, "ayrshare", ok)
CreateCheckoutSession(u, ok) == CallService(u, "stripe", ok)

\* POST /api/auth/login: User.findOne by email and the signing of a token;
\* the user's record is read and sent back.
Login(u) ==
  /\ other.calls < MaxCalls
  /\ other' = Handled(other)
  /\ UNCHANGED <<tokensUsed, tokens0, req, san, tab, chat>>

\* The inputs of the gateway in the specification of the whole server.
ServerAgents == {"niche"}
ServerResults ==
  {BackendResult(<<ArrTok>>, Undefined, count) : count \in {Undefined, Num(300)}}

\* Concurrent gateway requests among requests to the other routes.
NextServer ==
  \/ \E r \in Reqs :
       \/ \E token \in SampleTokens, agent \in ServerAgents, pid \in SamplePayloadIds :
            AuthenticateToken(r, token, agent, pid)
       \/ ExecuteStart(r)
       \/ FindByIdReads(r)
       \/ FindByIdResolves(r)
       \/ FindByIdRejects(r)
       \/ \E result \in ServerResults : GenerateContentResolves(r, result)
       \/ GenerateContentRejects(r)
       \/ FindByIdAndUpdateResolves(r)
       \/ FindByIdAndUpdateRejects(r)
  \/ \E u \in ServerUsers :
       \/ GetProjects(u)
       \/ PostProject(u)
       \/ \E id \in DocIds : PutProject(u, id)
       \/ \E id \in DocIds : DeleteProject(u, id)
       \/ GetClients(u)
       \/ PostClient(u)
       \/ \E id \in DocIds, body \in ClientBodies : PutClient(u, id, body)
       \/ \E id \in DocIds : DeleteClient(u, id)
       \/ \E ok \in BOOLEAN : EmailSend(u, ok)
       \/ \E ok \in BOOLEAN : SocialPost(u, ok)
       \/ \E ok \in BOOLEAN : CreateCheckoutSession(u, ok)
       \/ Login(u)

SpecServer == Init /\ [][NextServer]_vars

(***************************************************************************)
(* cleanInput on its own: a value is given to it, and its result is given  *)
(* to it once more.                                                        *)
(***************************************************************************)
\* Length of the longest of the short strings.
MaxShortLen == 3

\* Code units at and next to the ends of the two ranges the regex names.
CleanUnits == {0, 31, 32, 126, 127, 159, 160}

RECURSIVE StringsUpTo(_)
StringsUpTo(n) ==
  IF n = 0 THEN {<<>>}
  ELSE LET shorter == StringsUpTo(n - 1)
       IN  shorter \cup {Append(s, c) : s \in {t \in shorter : Len(t) = n - 1},
                                        c \in CleanUnits}

\* Strings around the cut: one unit too long; a control character and then
\* 5000 others; controls near the 5000th unit; exactly 5000 units; 5000 units
\* and a control character; control characters only.
LongStrings ==
  {LongStr,
   <<10>> \o Rep(97, LongLen - 1),
   Rep(97, LongLen - 3) \o <<0, 98, 159, 99, 100>>,
   Rep(97, MaxInputLen),
   Rep(97, MaxInputLen) \o <<127>>,
   Rep(10, LongLen)}

\* Values that are not strings.
NonStrings == {Undefined, Num(5), Arr(<<>>), Obj(<<>>, <<>>)}

CleanInputs ==
  {Str(s) : s \in StringsUpTo(MaxShortLen) \cup LongStrings} \cup NonStrings

InitClean ==
  /\ tokensUsed = InitialTokens("fresh")
  /\ tokens0 = tokensUsed
  /\ req = [r \in Reqs |-> IdleReq]
  /\ other = NoOther
  /\ tab = IdleTab
  /\ chat = IdleChat
  /\ san \in {[IdleSan EXCEPT !.pc = "given", !.v = v] : v \in CleanInputs}

\* cleanInput(v)
CleanOnce ==
  /\ san.pc = "given"
  /\ san' = [san EXCEPT !.pc = "once", !.once = cleanInput(san.v)]
  /\ UNCHANGED <<tokensUsed, tokens0, req, other, tab, chat>>

\* cleanInput(cleanInput(v))
CleanTwice ==
  /\ san.pc = "once"
  /\ san' = [san EXCEPT !.pc = "twice", !.twice = cleanInput(san.once)]
  /\ UNCHANGED <<tokensUsed, tokens0, req, other, tab, chat>>

NextClean == CleanOnce \/ CleanTwice

SpecClean == InitClean /\ [][NextClean]_vars

(***************************************************************************)
(* The shaping of the reply on its own, for the table of the source and    *)
(* for tables edited as a maintainer would: an agent added, an agent       *)
(* renamed, the tools of an agent taken away.                              *)
(***************************************************************************)
Tables ==
  {AI_AGENTS,
   AI_AGENTS @@ ("places_scout" :> AgentConfig("gemini-2.5-flash", <<"googleMaps">>, NoSchema)),
   [a \in (AgentNames \ {"maps_scout"}) \cup {"local_scout"} |->
      IF a = "local_scout" THEN AI_AGENTS["maps_scout"] ELSE AI_AGENTS[a]],
   [AI_AGENTS EXCEPT !["seo_audit"].tools = <<>>]}

\* Results of the backend for the shaping: JSON or prose with JSON, with
\* and without grounding chunks.
TableResults ==
  {BackendResult(text, chunks, Undefined) :
     text \in {<<ObjTok>>, <<Prose, Ws, ArrTok>>}, chunks \in {Undefined, TwoChunks}}

\* Two contracts agree on whether there are tools and whether there is a schema.
SameContractKind(c1, c2) ==
  /\ (c1.tools = <<>>) <=> (c2.tools = <<>>)
  /\ (c1.schema = NoSchema) <=> (c2.schema = NoSchema)

InitTable ==
  /\ tokensUsed = InitialTokens("fresh")
  /\ tokens0 = tokensUsed
  /\ req = [r \in Reqs |-> IdleReq]
  /\ other = NoOther
  /\ san = IdleSan
  /\ chat = IdleChat
  /\ \E table \in Tables, result \in TableResults :
       \E a, b \in DOMAIN table :
         /\ a # b
         /\ SameContractKind(table[a], table[b])
         /\ tab = [pc |-> "given", table |-> table, a |-> a, b |-> b,
                   result |-> result, dataA |-> Undefined, dataB |-> Undefined]

\* The handler's shaping of the same result for agent a and for agent b.
ShapeBoth ==
  /\ tab.pc = "given"
  /\ tab' = [tab EXCEPT !.pc = "shaped",
                        !.dataA = NormalizeIn(tab.table, tab.a, tab.result),
                        !.dataB = NormalizeIn(tab.table, tab.b, tab.result)]
  /\ UNCHANGED <<tokensUsed, tokens0, req, other, san, chat>>

NextTable == ShapeBoth

SpecTable == InitTable /\ [][NextTable]_vars

(***************************************************************************)
(* The client wrappers of geminiService.ts: each calls executeAI with one  *)
(* agent and hands result.data to its caller under the declared type.      *)
(***************************************************************************)
Wrapper(name, agent, returns) == [name |-> name, agent |-> agent, returns |-> returns]

\* returns: "list" for T[], "object" for an object type, "text" for the
\* string sendChatMessage makes of the data, "textAndChunks" for
\* LocalBusinessResult.
ClientWrappers ==
  {Wrapper("generateNiches", "niche", "list"),
   Wrapper("generatePersona", "persona", "object"),
   Wrapper("generateLeadMagnets", "magnets", "list"),
   Wrapper("searchLocalBusinesses", "maps_scout", "textAndChunks"),
   Wrapper("generateSocialSearchQueries", "social_search", "list"),
   Wrapper("generateQualification", "qualification", "list"),
   Wrapper("handleObjection", "objection_handler", "list"),
   Wrapper("generateColdDMs", "cold_dms", "list"),
   Wrapper("generateFollowUp", "follow_up", "list"),
   Wrapper("sendChatMessage", "chat_reply", "text"),
   Wrapper("generateLandingPage", "landing_page", "object"),
   Wrapper("generateAdCreatives", "ad_creatives", "list"),
   Wrapper("generateSeoAudit", "seo_audit", "list"),
   Wrapper("generateKeywordStrategy", "seo_keywords", "list"),
   Wrapper("analyzeContentSeo", "content_score", "object"),
   Wrapper("generateEmailCampaignContent", "email_campaign", "object"),
   Wrapper("optimizeSubjectLines", "email_subjects", "list"),
   Wrapper("generateEmailSequence", "follow_up", "list")}

SpecSingle == Init /\ [][NextSingle]_vars

(***************************************************************************)
(* Properties of the gateway.                                              *)
(***************************************************************************)
Finished(q) == q.pc = "done"

\* The request has been answered with this status.
Answered(q, status) == Finished(q) /\ Len(q.res) = 1 /\ q.res[1].status = status

\* The request went through the catch block with this error.
Failed(q, message) == q.log # <<>> /\ q.log[1].error = message

Tiers == {"hobby", "pro", "agency"}

CeilingOf(tier) ==
  CASE tier = "hobby" -> HobbyLimit
    [] tier = "pro" -> ProLimit
    [] tier = "agency" -> AgencyLimit

\* The quota check of q has read a counter at or over the ceiling of a tier.
CheckedOverCeiling(q) ==
  /\ q.seen # -1
  /\ Subscription[q.userId] \in Tiers
  /\ q.seen >= CeilingOf(Subscription[q.userId])

\* C1: a request for a registered agent whose quota check reads a counter
\* at or over the ceiling of the user's tier ends with the quota-exceeded
\* reply, and generateContent is never called for it.
C1_QuotaStopsBeforeBackend ==
  \A r \in Reqs :
    (req[r].agent \in AgentNames /\ CheckedOverCeiling(req[r]))
      => /\ Finished(req[r])
         /\ req[r].res = <<[status |-> 402,
                            body |-> [error |-> "Quota exceeded. Upgrade required."]]>>
         /\ req[r].sent = <<>>

C1_Witness ==
  \E r \in Reqs :
    /\ req[r].agent \in AgentNames
    /\ CheckedOverCeiling(req[r])
    /\ req[r].seen = CeilingOf(Subscription[req[r].userId])
    /\ Answered(req[r], 402)

\* C2: a request whose generateContent call failed has charged nothing and
\* left the counters as they were; a request that has charged is one whose
\* generateContent call had returned a result before the charge.
C2_FailedCallChargesNothing ==
  /\ \A r \in Reqs :
       /\ Failed(req[r], "generateContent failed")
            => req[r].charges = <<>> /\ tokensUsed = tokens0
       /\ req[r].charges # <<>>
            => /\ req[r].result # NoResult
               /\ Len(req[r].sent) = 1
               /\ \E i, j \in DOMAIN req[r].trace :
                    i < j /\ req[r].trace[i] = "invoke" /\ req[r].trace[j] = "charge"
  /\ tokensUsed # tokens0 => \E r \in Reqs : req[r].charges # <<>>

C2_Witness ==
  \E r \in Reqs :
    /\ Failed(req[r], "generateContent failed")
    /\ Answered(req[r], 500)
    /\ Len(req[r].sent) = 1
    /\ tokensUsed = tokens0

\* C3: a finished request has charged exactly once if it was answered with
\* a success reply, and not at all otherwise.
C3_ChargeIffSuccess ==
  \A r \in Reqs :
    Finished(req[r])
      => /\ Len(req[r].charges) <= 1
         /\ Len(req[r].charges) = 1 <=> Answered(req[r], 200)

\* C4: an authenticated request whose agent name is not registered is
\* answered 404 without the store being read, the backend being called or
\* a charge being made.
C4_UnknownAgentNotFound ==
  \A r \in Reqs :
    (req[r].agent \notin AgentNames /\ req[r].userId # "")
      => /\ req[r].pc \in {"handler", "done"}
         /\ Finished(req[r])
              => /\ Answered(req[r], 404)
                 /\ req[r].seen = -1
                 /\ req[r].sent = <<>>
                 /\ req[r].charges = <<>>

\* The payload with cleanInput applied to every string at any depth.
RECURSIVE DeepClean(_)
DeepClean(v) ==
  CASE v.t = "string" -> cleanInput(v)
    [] v.t = "array" -> Arr([i \in DOMAIN v.a |-> DeepClean(v.a[i])])
    [] v.t = "object" -> Obj(v.keys, [k \in DOMAIN v.f |-> DeepClean(v.f[k])])
    [] OTHER -> v

\* C5: every piece of a sent prompt that comes from the payload is free of
\* control characters, and the prompt is the one the builder gives for the
\* payload with every string of it, at any depth, sanitized.
C5_PromptSanitized ==
  \A r \in Reqs : \A i \in DOMAIN req[r].sent :
    LET prompt == req[r].sent[i].contents
    IN  /\ \A k \in DOMAIN prompt.segs :
             prompt.segs[k].t = "val"
               => /\ \A c \in DOMAIN prompt.segs[k].s : ~IsControl(prompt.segs[k].s[c])
                  /\ Len(prompt.segs[k].s) <= MaxInputLen
        /\ prompt = Prompt(req[r].agent, DeepClean(Payloads[req[r].pid]))

\* The data is the text-plus-chunks object the handler builds.
IsGroundedData(data) ==
  data.t = "object" /\ data.keys = <<"text", "mapChunks">>

\* The shape the contract of a registered agent declares.
DeclaredShape(agent) ==
  IF AI_AGENTS[agent].tools # <<>> THEN "grounded"
  ELSE IF AI_AGENTS[agent].schema # NoSchema THEN "structured"
  ELSE "text"

\* C6: the data of a success reply has the one shape the agent's contract
\* declares: text and chunk list with tools, the value of the JSON in the
\* backend's text with a schema and no tools, the backend's text otherwise.
C6_ShapeFollowsContract ==
  \A r \in Reqs :
    Answered(req[r], 200)
      => LET data == req[r].res[1].body.data
             text == req[r].result.text
             shape == DeclaredShape(req[r].agent)
         IN  /\ DOMAIN req[r].res[1].body = {"data"}
             /\ shape = "grounded"
                  => /\ IsGroundedData(data)
                     /\ data.f.text = Str(text)
                     /\ data.f.mapChunks.t = "array"
             /\ shape = "structured"
                  => /\ ~IsGroundedData(data)
                     /\ data # Str(text)
                     /\ \E i \in DOMAIN text :
                          text[i] \in {ObjTok, ArrTok, StrTok} /\ data = JsonValue(text[i])
             /\ shape = "text" => data = Str(text)

C6_Witness ==
  \E r \in Reqs :
    /\ req[r].agent = "seo_audit"
    /\ Answered(req[r], 200)
    /\ IsGroundedData(req[r].res[1].body.data)
    /\ req[r].res[1].body.data.f.mapChunks = TwoChunks

\* The request's invocation succeeded and its charge was stored.
Charged(q) ==
  Finished(q) /\ q.result # NoResult /\ ~Failed(q, "findByIdAndUpdate failed")

\* The charges of the first n slots' successful invocations for user u.
RECURSIVE SumCharged(_, _)
SumCharged(u, n) ==
  IF n = 0 THEN 0
  ELSE SumCharged(u, n - 1)
       + (IF req[n].userId = u /\ Charged(req[n]) THEN Usage(req[n].result) ELSE 0)

AllFinished == \A r \in Reqs : req[r].pc \in {"idle", "done"}

\* C7: once every request has finished, each user's counter is its initial
\* value plus the charges of that user's successful invocations, whatever
\* the interleaving.
C7_NoLostUpdate ==
  AllFinished
    => \A u \in UserIds : tokensUsed[u] = tokens0[u] + SumCharged(u, NumReqs)

C7_Witness ==
  /\ AllFinished
  /\ req[1].userId = req[2].userId
  /\ Charged(req[1]) /\ Charged(req[2])
  /\ req[1].seen = req[2].seen
  /\ tokensUsed[req[1].userId]
       = tokens0[req[1].userId] + Usage(req[1].result) + Usage(req[2].result)

\* C8: a request answered with the quota-exceeded reply has left every
\* counter as it was and has charged nothing.
C8_RejectionLeavesCounter ==
  \A r \in Reqs :
    Answered(req[r], 402) => tokensUsed = tokens0 /\ req[r].charges = <<>>

C8_Witness ==
  \E r \in Reqs :
    /\ Answered(req[r], 402)
    /\ req[r].agent = "chat_reply"
    /\ Subscription[req[r].userId] = "agency"

\* C9 as claimed: a finished request of a user whose counter is at or over
\* the ceiling of the tier, the store having answered, was answered with
\* the quota-exceeded reply, whatever its agent name.
C9_AnyAgentRejected ==
  \A r \in Reqs :
    ( /\ Finished(req[r])
      /\ req[r].userId \in UserIds
      /\ Subscription[req[r].userId] \in Tiers
      /\ tokens0[req[r].userId] >= CeilingOf(Subscription[req[r].userId])
      /\ ~Failed(req[r], "findById failed") )
      => Answered(req[r], 402)

\* C9 as amended: for a request that reaches the quota check, whatever its
\* agent name, the reply is the quota-exceeded one exactly when the counter
\* read is at or over the ceiling of the tier.
C9_CheckIgnoresAgent ==
  \A r \in Reqs :
    (req[r].seen # -1 /\ Subscription[req[r].userId] \in Tiers)
      => (Answered(req[r], 402)
            <=> req[r].seen >= CeilingOf(Subscription[req[r].userId]))

C9_Witness ==
  \E r \in Reqs :
    /\ req[r].agent = "constructor"
    /\ CheckedOverCeiling(req[r])
    /\ Answered(req[r], 402)

\* The order of the steps in the handler, and the order as claimed.
CodeOrder ==
  <<"authenticate", "resolve", "quota", "sanitize", "invoke", "charge",
    "normalize", "reply">>

ClaimedOrder ==
  <<"authenticate", "quota", "resolve", "sanitize", "invoke", "charge",
    "normalize", "reply">>

\* The steps taken are the first steps of the order, each once, with at most
\* a closing "errored"; the request is finished exactly when its last step
\* is the reply or "errored".
FollowsOrder(q, order) ==
  LET t == q.trace
      n == IF t # <<>> /\ t[Len(t)] = "errored" THEN Len(t) - 1 ELSE Len(t)
  IN  /\ n <= Len(order)
      /\ \A i \in 1..n : t[i] = order[i]
      /\ Finished(q) <=> (t # <<>> /\ t[Len(t)] \in {"reply", "errored"})

\* C10 as claimed: the steps of every request follow the order authenticate,
\* quota check, resolve, sanitize, invoke, charge, normalize, reply.
C10_ClaimedOrder == \A r \in Reqs : FollowsOrder(req[r], ClaimedOrder)

\* C10 as amended: the steps of every request follow the order authenticate,
\* resolve, quota check, sanitize, invoke, charge, normalize, reply, and a
\* finished request takes no further step.
C10_StepsInOrder ==
  /\ [](\A r \in Reqs : FollowsOrder(req[r], CodeOrder))
  /\ [][\A r \in Reqs : Finished(req[r]) => req'[r] = req[r]]_vars

C10_Witness ==
  \E r \in Reqs : req[r].trace = CodeOrder /\ Answered(req[r], 200)

\* The three error replies of the handler.
NotFoundReply == [status |-> 404, body |-> [error |-> "Invalid agent"]]
QuotaReply == [status |-> 402, body |-> [error |-> "Quota exceeded. Upgrade required."]]
GenericReply == [status |-> 500, body |-> [error |-> "AI Processing Failed"]]

\* C11: a finished authenticated request is answered by the class of its
\* error: the 404 reply for an agent name that is not registered, the 402
\* reply with the quota message for a registered agent whose check read a
\* counter at or over the ceiling, and for every failure of the store, the
\* prompt, the backend call or the parse the one 500 reply, whose body is the
\* same whatever the error, the prompt and the backend's text were.
C11_ErrorClasses ==
  \A r \in Reqs :
    (Finished(req[r]) /\ req[r].userId # "")
      => /\ req[r].agent \notin AgentNames => req[r].res = <<NotFoundReply>>
         /\ (req[r].agent \in AgentNames /\ CheckedOverCeiling(req[r]))
              => req[r].res = <<QuotaReply>>
         /\ req[r].log # <<>> => req[r].res = <<GenericReply>>

\* C12: the amount a request charged is the totalTokenCount of the backend's
\* result whenever the result carries one, zero included, and 500 only when
\* the result carries none.
C12_ChargeIsReportedCost ==
  \A r \in Reqs :
    req[r].charges # <<>>
      => req[r].charges[1] =
           IF req[r].result.totalTokenCount.t = "number"
           THEN req[r].result.totalTokenCount.n
           ELSE FallbackUsage

\* C13: generateContent is called at most once for a request; a request
\* whose call was rejected, or whose structured text failed to parse, has
\* finished with the 500 reply after exactly one call.
C13_AtMostOneBackendCall ==
  \A r \in Reqs :
    /\ Len(req[r].sent) <= 1
    /\ (Failed(req[r], "generateContent failed") \/ Failed(req[r], "Unexpected token"))
         => /\ Len(req[r].sent) = 1
            /\ req[r].res = <<GenericReply>>
            /\ Finished(req[r])

C13_Witness ==
  \E r1, r2 \in Reqs :
    /\ Failed(req[r1], "generateContent failed") /\ Len(req[r1].sent) = 1
    /\ Failed(req[r2], "Unexpected token") /\ Len(req[r2].sent) = 1
    /\ Finished(req[r1]) /\ Finished(req[r2])

\* The kind of error a logged message stands for.
ErrorKindOf(q) ==
  IF Answered(q, 404) THEN "UnknownAgent"
  ELSE IF Answered(q, 402) THEN "QuotaExceeded"
  ELSE IF q.log # <<>> /\ q.log[1].error = "Unexpected token" THEN "NormalizationFailure"
  ELSE "InvocationFailure"

\* C15: every authenticated request that ended in an error reply has written
\* a log entry, and the entry holds the user id, the agent name and the kind
\* of the error.
C15_ErrorsLogged ==
  \A r \in Reqs :
    (Finished(req[r]) /\ req[r].userId # "" /\ ~Answered(req[r], 200))
      => /\ Len(req[r].log) = 1
         /\ req[r].log[1].userId = req[r].userId
         /\ "agent" \in DOMAIN req[r].log[1]
         /\ req[r].log[1].agent = req[r].agent
         /\ "kind" \in DOMAIN req[r].log[1]
         /\ req[r].log[1].kind = ErrorKindOf(req[r])

\* The type of JSON value a schema declares at its top.
SchemaShape(schema) == IF schema.type = "ARRAY" THEN "array" ELSE "object"

\* C17: the data of a success reply for an agent with a schema and no tools
\* is a JSON value of the type the schema declares at its top: an array for
\* an ARRAY schema, an object for an OBJECT schema.
C17_DataMatchesSchema ==
  \A r \in Reqs :
    ( /\ Answered(req[r], 200)
      /\ req[r].agent \in AgentNames
      /\ DeclaredShape(req[r].agent) = "structured" )
      => req[r].res[1].body.data.t = SchemaShape(AI_AGENTS[req[r].agent].schema)

\* The backend's text: one JSON object inside a fenced block marked json.
FencedObject == <<Fence, JsonWord, Ws, ObjTok, Ws, Fence>>

\* The text without fences, the word json that marks a fence, and the
\* white space at its ends.
Unfenced(text) ==
  LET marks == {i \in DOMAIN text :
                  text[i] = Fence \/ (text[i] = JsonWord /\ i > 1 /\ text[i - 1] = Fence)}
      inner == {i \in DOMAIN text : i \notin marks /\ text[i] # Ws}
  IN  IF inner = {} THEN <<>>
      ELSE LET lo == CHOOSE i \in inner : \A j \in inner : i <= j
               hi == CHOOSE i \in inner : \A j \in inner : i >= j
           IN  SelectSeq([k \in 1..(hi - lo + 1) |->
                            IF (lo + k - 1) \in marks THEN Fence ELSE text[lo + k - 1]],
                         LAMBDA tok : tok # Fence)

\* The text is one JSON value and nothing else.
IsOneJsonValue(text) == Len(text) = 1 /\ text[1] \in {ObjTok, ArrTok, StrTok}

\* C20: for an agent with a schema and no tools whose handler came to shape
\* the reply: when the backend's text is not JSON as it stands and is one
\* JSON value once its fences and the white space around it are gone, the
\* reply is the success reply carrying that value; when it is JSON in
\* neither form the reply is the 500 one; the reply is shaped once.
C20_FenceFallback ==
  \A r \in Reqs :
    ( /\ Finished(req[r])
      /\ req[r].charges # <<>>
      /\ req[r].agent \in AgentNames
      /\ DeclaredShape(req[r].agent) = "structured" )
      => LET text == req[r].result.text
             bare == Unfenced(text)
             strictFails == \E i \in DOMAIN text : text[i] \in {Fence, JsonWord, Prose}
         IN  /\ (strictFails /\ IsOneJsonValue(bare))
                  => req[r].res = <<[status |-> 200,
                                     body |-> [data |-> JsonValue(bare[1])]]>>
             /\ (strictFails /\ ~IsOneJsonValue(bare)) => req[r].res = <<GenericReply>>
             /\ Cardinality({i \in DOMAIN req[r].trace : req[r].trace[i] = "normalize"}) = 1

C20_Witness ==
  \E r \in Reqs :
    /\ req[r].agent = "content_score"
    /\ req[r].result.text = FencedObject
    /\ Answered(req[r], 200)
    /\ req[r].res[1].body.data = JsonValue(ObjTok)

\* What reached the caller: the reply, unless the connection was closed
\* before the handler wrote it.
Delivered(q) == IF q.closedAt # "" THEN <<>> ELSE q.res

\* The sum of the amounts in a sequence of charges.
RECURSIVE SumSeq(_)
SumSeq(s) == IF s = <<>> THEN 0 ELSE s[1] + SumSeq(Tail(s))

\* The charges the first n slots have made for user u.
RECURSIVE TotalCharges(_, _)
TotalCharges(u, n) ==
  IF n = 0 THEN 0
  ELSE TotalCharges(u, n - 1)
       + (IF req[n].userId = u THEN SumSeq(req[n].charges) ELSE 0)

\* C14: every request, one whose caller has disconnected included, charges
\* at most once and is replied to at most once; each counter is its initial
\* value plus the charges the requests made for its user; a request whose
\* caller disconnected delivers nothing, and one whose backend result
\* arrived after the disconnect has, once finished, either charged that
\* result once or (the store refusing the update) dropped it.
C14_OneChargeOneReply ==
  /\ \A r \in Reqs :
       /\ Len(req[r].charges) <= 1
       /\ Len(req[r].res) <= 1
       /\ Len(Delivered(req[r])) <= 1
       /\ (Finished(req[r]) /\ req[r].result # NoResult)
            => (Len(req[r].charges) = 1
                  <=> ~Failed(req[r], "findByIdAndUpdate failed"))
       /\ req[r].charges # <<>> => req[r].charges[1] = Usage(req[r].result)
  /\ \A u \in UserIds : tokensUsed[u] = tokens0[u] + TotalCharges(u, NumReqs)

C14_Witness ==
  \E r \in Reqs :
    /\ req[r].closedAt = "generateContent"
    /\ Finished(req[r])
    /\ req[r].result # NoResult
    /\ Len(req[r].charges) = 1
    /\ Len(req[r].res) = 1
    /\ Delivered(req[r]) = <<>>
    /\ tokensUsed[req[r].userId] = tokens0[req[r].userId] + Usage(req[r].result)

\* C16: a step changes the tokensUsed of a user only when it is the charge
\* of a gateway request of that user: the request goes from its wait on
\* findByIdAndUpdate to its end, the counter grows by the usage of that
\* request's result, and no other counter changes; the step of another
\* user's request, every other step of the gateway and every step of the
\* project, client, email, social, checkout and login routes leaves the
\* counter as it was, and no step lowers it.
C16_OnlyOwnChargeChanges ==
  [][\A u \in UserIds :
       tokensUsed'[u] # tokensUsed[u]
         => /\ tokensUsed'[u] > tokensUsed[u]
            /\ other' = other
            /\ \E r \in Reqs :
                 /\ req[r].userId = u
                 /\ req[r].pc = "findByIdAndUpdate"
                 /\ req'[r].pc = "done"
                 /\ req'[r].charges = <<tokensUsed'[u] - tokensUsed[u]>>
                 /\ req[r].charges = <<>>
                 /\ \A k \in Reqs \ {r} : req'[k] = req[k]
            /\ \A w \in UserIds \ {u} : tokensUsed'[w] = tokensUsed[w]]_vars

\* One user has been charged by their own request while the other user, with
\* a finished request that charged nothing and a client edited through a
\* body that names usage, keeps the counter they started with.
C16_Witness ==
  \E r1, r2 \in Reqs :
    /\ req[r1].userId = "u_pro" /\ Len(req[r1].charges) = 1 /\ Finished(req[r1])
    /\ req[r2].userId = "u_hobby" /\ Finished(req[r2]) /\ req[r2].charges = <<>>
    /\ tokensUsed["u_pro"] > tokens0["u_pro"]
    /\ tokensUsed["u_hobby"] = tokens0["u_hobby"]
    /\ \E c \in other.clients : c.userId = "u_hobby" /\ c.name = "Acme"

\* C18: cleanInput applied to its own result gives that result again.
C18_Idempotent == san.pc = "twice" => san.twice = san.once

\* A string with control characters and more than 5000 others went through
\* twice: the first pass changed it, the second changed nothing.
C18_Witness ==
  /\ san.pc = "twice"
  /\ san.v = Str(Rep(97, LongLen - 3) \o <<0, 98, 159, 99, 100>>)
  /\ san.once # san.v
  /\ Len(san.once.s) = MaxInputLen
  /\ san.twice = san.once

\* The two ranges as the claim gives them.
InStrippedRanges(c) == c \in (0..31) \cup (127..159)

\* C19: for a string s, cleanInput(s) is a string without any code unit of
\* U+0000..U+001F or U+007F..U+009F, of length the smaller of 5000 and the
\* number of other code units of s, and its k-th unit is the k-th other
\* unit of s: removal first, the cut second.
C19_StripThenCut ==
  (san.pc # "given" /\ san.v.t = "string")
    => LET s == san.v.s
           ctrl == {j \in DOMAIN s : InStrippedRanges(s[j])}
           before(i) == Cardinality({j \in ctrl : j < i})
       IN  /\ san.once.t = "string"
           /\ Len(san.once.s) = Min(5000, Len(s) - Cardinality(ctrl))
           /\ \A k \in DOMAIN san.once.s : ~InStrippedRanges(san.once.s[k])
           /\ \A i \in DOMAIN s \ ctrl :
                (i - before(i)) <= Len(san.once.s)
                  => san.once.s[i - before(i)] = s[i]

\* A control character and then 5000 others: all 5000 others are kept.
C19_Witness ==
  /\ san.pc = "once"
  /\ san.v = Str(<<10>> \o Rep(97, LongLen - 1))
  /\ Len(san.v.s) > 5000
  /\ san.once = Str(Rep(97, 5000))

\* The backend's text: prose before a JSON array, which is JSON neither as
\* it stands nor without fences.
ProseThenArray == <<Prose, Ws, ArrTok>>

\* C21: for an agent with a schema and no tools whose handler came to shape
\* the reply, a text that is JSON neither as it stands nor with its fences
\* and the white space around it removed gives the 500 reply with the
\* generic body and nothing else: no reply carries a data field, the text or
\* a value parsed from a part of it.
C21_MalformedIsFailure ==
  \A r \in Reqs :
    ( /\ Finished(req[r])
      /\ req[r].charges # <<>>
      /\ req[r].agent \in AgentNames
      /\ DeclaredShape(req[r].agent) = "structured"
      /\ ~IsOneJsonValue(req[r].result.text)
      /\ ~IsOneJsonValue(Unfenced(req[r].result.text)) )
      => /\ Len(req[r].res) = 1
         /\ req[r].res[1].status = 500
         /\ DOMAIN req[r].res[1].body = {"error"}
         /\ req[r].res[1].body.error = "AI Processing Failed"
         /\ Failed(req[r], "Unexpected token")

C21_Witness ==
  \E r \in Reqs :
    /\ req[r].agent = "persona"
    /\ req[r].result.text = ProseThenArray
    /\ Answered(req[r], 500)
    /\ Failed(req[r], "Unexpected token")
    /\ "data" \notin DOMAIN req[r].res[1].body

\* C22: the mapChunks of a success reply for an agent with tools is the
\* backend's list of grounding chunks, the same elements in the same order,
\* and the empty list when the result carries no grounding metadata or no
\* chunks; and a request for such an agent that came to shape its reply is
\* answered with success in both cases.
C22_ChunksAsReported ==
  \A r \in Reqs :
    ( /\ Finished(req[r])
      /\ req[r].charges # <<>>
      /\ req[r].agent \in AgentNames
      /\ AI_AGENTS[req[r].agent].tools # <<>> )
      => /\ Answered(req[r], 200)
         /\ LET chunks == req[r].res[1].body.data.f.mapChunks
                reported == req[r].result.groundingChunks
            IN  /\ chunks.t = "array"
                /\ reported.t = "undefined" => chunks.a = <<>>
                /\ reported.t = "array"
                     => /\ Len(chunks.a) = Len(reported.a)
                        /\ \A i \in DOMAIN reported.a : chunks.a[i] = reported.a[i]

\* The map search got two chunks and sent them on in their order.
C22_Witness ==
  \E r \in Reqs :
    /\ req[r].agent = "maps_scout"
    /\ Answered(req[r], 200)
    /\ req[r].result.groundingChunks = TwoChunks
    /\ req[r].res[1].body.data.f.mapChunks.a = <<Chunk("Acme Cafe"), Chunk("Acme Bakery")>>

\* The shape of the data of a reply: the text-plus-chunks object, the text
\* as it came, a value parsed from it, or the failure of the parse.
ShapeClass(data, result) ==
  IF data.t = "throw" THEN "failure"
  ELSE IF IsGroundedData(data) THEN "grounded"
  ELSE IF data = Str(result.text) THEN "text"
  ELSE "structured"

\* C23: for any table, two agents whose entries agree on having tools and on
\* having a schema get data of the same shape for the same backend result,
\* whatever their names; and an agent with tools gets the text-plus-chunks
\* shape.
C23_ShapeByContractOnly ==
  tab.pc = "shaped"
    => /\ ShapeClass(tab.dataA, tab.result) = ShapeClass(tab.dataB, tab.result)
       /\ tab.table[tab.a].tools # <<>>
            => ShapeClass(tab.dataA, tab.result) = "grounded"

\* A step in which the handler of r calls generateContent.
Issues(r) == Len(req'[r].sent) > Len(req[r].sent)

\* The users whose subscription names a tier.
TierUsers == {u \in UserIds : Subscription[u] \in Tiers}

MaxCharge ==
  CHOOSE c \in {Usage(x) : x \in SampleResults} :
    \A d \in {Usage(x) : x \in SampleResults} : d <= c

\* The most requests of user u that were being handled at one time.
Peak(u) ==
  LET counts == {req[r].among : r \in {k \in Reqs : req[k].userId = u}} \cup {0}
  IN  CHOOSE n \in counts : \A m \in counts : m <= n

\* C25: a user who starts below the ceiling of the tier stays below the
\* ceiling plus N times the largest charge, N being the most requests of
\* that user handled at one time: below the ceiling plus one charge when
\* the requests run one after another.
C25_BoundedOvershoot ==
  \A u \in TierUsers :
    tokens0[u] < CeilingOf(Subscription[u])
      => /\ tokensUsed[u] < CeilingOf(Subscription[u]) + Peak(u) * MaxCharge
         /\ Peak(u) = 0 => tokensUsed[u] = tokens0[u]

\* Two requests of one user handled at once took the counter past the
\* ceiling by more than one charge.
C25_Witness ==
  \E u \in TierUsers :
    /\ tokens0[u] < CeilingOf(Subscription[u])
    /\ Peak(u) = 2
    /\ tokensUsed[u] >= CeilingOf(Subscription[u]) + MaxCharge

\* The agents whose prompt reads d.persona.jobTitle.
PersonaReaders == {"social_search", "landing_page", "chat_reply", "cold_dms"}

\* The prompt builder of the agent raises on the payload: there is no
\* payload, or there is no persona in it and the agent reads persona.jobTitle.
BuilderRaises(agent, payload) ==
  \/ payload.t = "undefined"
  \/ agent \in PersonaReaders /\ payload.f.persona.t = "undefined"

\* C26: a finished request for a registered agent that was not answered 402
\* and whose id has no user record, or whose prompt builder raises on the
\* payload, has the generic 500 reply, has called generateContent never and
\* charged nothing, and every counter is as it was.
C26_EarlyFailure ==
  \A r \in Reqs :
    ( /\ Finished(req[r])
      /\ req[r].agent \in AgentNames
      /\ req[r].userId # ""
      /\ ~Answered(req[r], 402)
      /\ \/ req[r].userId = MissingId
         \/ BuilderRaises(req[r].agent, Payloads[req[r].pid]) )
      => /\ req[r].res = <<GenericReply>>
         /\ req[r].sent = <<>>
         /\ req[r].charges = <<>>
         /\ tokensUsed = tokens0

\* A landing page is asked for with a payload that has no persona.
C26_Witness ==
  \E r \in Reqs :
    /\ req[r].agent = "landing_page"
    /\ req[r].userId \in UserIds
    /\ Payloads[req[r].pid].t = "object"
    /\ Payloads[req[r].pid].f.persona = Undefined
    /\ req[r].seen # -1
    /\ Answered(req[r], 500)
    /\ req[r].sent = <<>>
    /\ tokensUsed = tokens0

\* The shape of the data of a success reply as a client sees it.
DataShape(data) ==
  IF data.t = "array" THEN "list"
  ELSE IF IsGroundedData(data) THEN "textAndChunks"
  ELSE IF data.t = "object" THEN "object"
  ELSE "text"

\* The backend's text is what the agent's entry asks for: with a schema, one
\* JSON value of the type the schema declares at its top.
TextConforms(agent, text) ==
  AI_AGENTS[agent].schema # NoSchema
    => /\ IsOneJsonValue(text)
       /\ JsonValue(text[1]).t = SchemaShape(AI_AGENTS[agent].schema)

\* C27: for every client wrapper, the data of a success reply for the
\* wrapper's agent, the backend's text being what the agent's entry asks
\* for, has the shape the wrapper's return type declares: a list, an
\* object, a text, or text plus chunk list.
C27_WrapperGetsItsShape ==
  \A w \in ClientWrappers : \A r \in Reqs :
    ( /\ Answered(req[r], 200)
      /\ req[r].agent = w.agent
      /\ TextConforms(req[r].agent, req[r].result.text) )
      => DataShape(req[r].res[1].body.data) = w.returns

\* C28: a request whose quota check ran for a user without a subscription
\* is rejected exactly when the counter read is at or over the lowest
\* ceiling; and whatever the subscription stored for the user, a request
\* whose check read a counter at or over the highest of the three ceilings
\* is rejected.
C28_EveryoneHasACeiling ==
  \A r \in Reqs :
    (Finished(req[r]) /\ req[r].seen # -1)
      => /\ Subscription[req[r].userId] = ""
              => (Answered(req[r], 402) <=> req[r].seen >= HobbyLimit)
         /\ req[r].seen >= AgencyLimit => Answered(req[r], 402)

\* A step of the handler of request r after authentication: the handler
\* runs, or a call it waits on resolves or rejects.
HandlerStep(r) ==
  \/ ExecuteStart(r)
  \/ FindByIdReads(r)
  \/ FindByIdResolves(r)
  \/ FindByIdRejects(r)
  \/ \E result \in SampleResults : GenerateContentResolves(r, result)
  \/ GenerateContentRejects(r)
  \/ FindByIdAndUpdateResolves(r)
  \/ FindByIdAndUpdateRejects(r)

\* The inputs of the specification with fairness: a registered agent with
\* a schema, a grounded one, one that reads the persona's fields, the chat
\* agent and a name nothing defines; no payload, flat payloads with and
\* without a persona; a token of a user nobody is.
LiveAgents == {"niche", "maps_scout", "social_search", "chat_reply", "does_not_exist"}
LivePayloadIds == {1, 2, 6}
LiveTokens == SampleTokens \cup {ValidToken(MissingId)}

\* One request, with the inputs above.
NextLive ==
  \/ \E token \in LiveTokens, agent \in LiveAgents, pid \in LivePayloadIds :
       AuthenticateToken(1, token, agent, pid)
  \/ HandlerStep(1)

\* One request whose awaits all settle: the event loop runs a handler that
\* can run, the store answers every findById and findByIdAndUpdate by
\* resolving or rejecting, and so does the backend for every
\* generateContent.  At each position of the handler only the steps of that
\* position are enabled, so one condition covers them.
SpecLive == Init /\ [][NextLive]_vars /\ WF_vars(HandlerStep(1))

\* The request has its one response, of one of the handler's four kinds.
OneResponse(q) ==
  /\ q.pc = "done"
  /\ Len(q.res) = 1
  /\ q.res[1].status \in {200, 404, 402, 500}

\* C29: when the store's and the backend's calls all settle, every request
\* that reached the handler is in the end finished with exactly one
\* response, a 200, 404, 402 or 500, and no request ever has two.
C29_ExactlyOneResponse ==
  /\ [](\A r \in Reqs : Len(req[r].res) <= 1)
  /\ \A r \in Reqs : (req[r].pc = "handler") ~> OneResponse(req[r])

\* A request that called the backend, whose call was rejected, has its one
\* response, the 500.
C29_Witness ==
  \E r \in Reqs :
    /\ OneResponse(req[r]) /\ req[r].res[1].status = 500
    /\ Len(req[r].sent) = 1
    /\ req[r].result = IdleReq.result
    /\ req[r].userId \in UserIds
(***************************************************************************)
(* The sales chat of the client.  createSalesChat keeps one history array  *)
(* in its closure; each sendMessage call is an entry of chat.calls with    *)
(* the message it was given, the history its request carried, and how it   *)
(* ended.                                                                  *)
(***************************************************************************)

\* The number of sendMessage calls followed on one chat.
MaxSends == 3

\* "Start the conversation.", the message startSimulation sends.
StartMsg ==
  <<83, 116, 97, 114, 116, 32, 116, 104, 101, 32, 99, 111, 110, 118, 101,
    114, 115, 97, 116, 105, 111, 110, 46>>

\* The messages a caller sends.
ChatInputs == {StartMsg, PlainStr}

\* "..."
Dots == <<46, 46, 46>>

\* The data of a gateway reply to chat_reply: a string, an empty string, an
\* object with a text, with an empty text, with none, and no data.
ChatReplies ==
  {Str(PlainStr), Str(<<>>),
   Obj(<<"text">>, [text |-> Str(PlainStr)]),
   Obj(<<"text">>, [text |-> Str(<<>>)]),
   Obj(<<"mapChunks">>, [mapChunks |-> Arr(<<>>)]),
   Undefined}

\* sendChatMessage after executeAI resolved with result: a string as it is,
\* else result.text || "...", a TypeError when there is no result.
sendChatMessage(result) ==
  IF result.t = "string" THEN result
  ELSE LET text == Get(result, "text")
       IN  IF text.t = "throw" THEN Throws
           ELSE IF text.t = "string" /\ text.s # <<>> THEN text
           ELSE Str(Dots)

InitChat ==
  /\ tokensUsed = InitialTokens("fresh")
  /\ tokens0 = tokensUsed
  /\ req = [r \in Reqs |-> IdleReq]
  /\ other = NoOther
  /\ san = IdleSan
  /\ tab = IdleTab
  /\ chat = IdleChat

\* createSalesChat(productName, persona): an empty history.
createSalesChat ==
  /\ chat.pc = "idle"
  /\ chat' = [pc |-> "open", history |-> <<>>, calls |-> <<>>]
  /\ UNCHANGED <<tokensUsed, tokens0, req, other, san, tab>>

\* sendMessage(msg) up to its await: the user entry is pushed, and
\* sendChatMessage and executeAI run on to fetch, whose body is the
\* serialisation of the history as it is now.
SendMessage(message) ==
  /\ chat.pc = "open"
  /\ Len(chat.calls) < MaxSends
  /\ LET history == Append(chat.history, ChatMessage("user", message))
     IN  chat' = [chat EXCEPT !.history = history,
                              !.calls = Append(@, [message |-> message,
                                                   sent |-> history,
                                                   state |-> "waiting",
                                                   text |-> Undefined])]
  /\ UNCHANGED <<tokensUsed, tokens0, req, other, san, tab>>

\* executeAI of call i resolves with the reply's data: the text is worked
\* out and the model entry pushed; a TypeError in sendChatMessage rejects
\* the call.
ExecuteAIResolves(i, data) ==
  /\ chat.pc = "open"
  /\ i \in DOMAIN chat.calls
  /\ chat.calls[i].state = "waiting"
  /\ LET responseText == sendChatMessage(data)
     IN  chat' =
           IF responseText.t = "throw"
           THEN [chat EXCEPT !.calls[i].state = "rejected"]
           ELSE [chat EXCEPT !.history = Append(@, ChatMessage("model", responseText.s)),
                             !.calls[i].state = "resolved",
                             !.calls[i].text = responseText]
  /\ UNCHANGED <<tokensUsed, tokens0, req, other, san, tab>>

\* executeAI of call i throws: fetch failed or the response was not ok.
ExecuteAIRejects(i) ==
  /\ chat.pc = "open"
  /\ i \in DOMAIN chat.calls
  /\ chat.calls[i].state = "waiting"
  /\ chat' = [chat EXCEPT !.calls[i].state = "rejected"]
  /\ UNCHANGED <<tokensUsed, tokens0, req, other, san, tab>>

NextChat ==
  \/ createSalesChat
  \/ \E message \in ChatInputs : SendMessage(message)
  \/ \E i \in 1..MaxSends, data \in ChatReplies : ExecuteAIResolves(i, data)
  \/ \E i \in 1..MaxSends : ExecuteAIRejects(i)

SpecChat == InitChat /\ [][NextChat]_vars

\* The role of a history entry.
RoleOf(entry) ==
  IF entry = ChatMessage("user", entry.f.text.s) THEN "user" ELSE "model"

\* The history alternates user and model entries, a user entry first.
Alternates(history) ==
  \A k \in DOMAIN history :
    RoleOf(history[k]) = IF k % 2 = 1 THEN "user" ELSE "model"

\* C30: the history of a chat alternates user and model entries, starting
\* with a user entry, whatever calls were made, failed or overlapped; and
\* the history each call sent ends with the user entry of its own message.
C30_HistoryAlternates ==
  chat.pc = "open" =>
    /\ Alternates(chat.history)
    /\ \A i \in DOMAIN chat.calls :
         /\ chat.calls[i].sent # <<>>
         /\ chat.calls[i].sent[Len(chat.calls[i].sent)]
              = ChatMessage("user", chat.calls[i].message)

====
